---------------------------- MODULE Spec2Model ----------------------------
(***************************************************************************)
(* A model of path-utils/src/curve.rs: the quadratic Bezier `Curve` value  *)
(* and its pure operations (sample, subdivide, subdivide_at_x,             *)
(* solve_t_for_x, solve_y_for_x, inflection_points).                       *)
(*                                                                         *)
(* Floating-point numbers are modelled as extended rationals: a value is   *)
(* finite (sign, numerator, denominator, with a signed zero), an infinity  *)
(* or NaN, and the IEEE-754 rules for the special values are kept          *)
(* (x/0, 0/0, inf-inf, sqrt of a negative, comparisons with NaN).  The     *)
(* ring operations are exact on the small operands of the model; the two   *)
(* inexact steps are kept inexact: sqrt rounds to the nearest multiple of  *)
(* 1/SqrtPrec and the narrowing `as f32` rounds to the nearest multiple    *)
(* of 1/NarrowPrec.                                                        *)
(***************************************************************************)
EXTENDS Integers, Sequences, FiniteSets

VARIABLES curve, op, arg, ret

vars == <<curve, op, arg, ret>>

(***************************************************************************)
(* Bounds of the model.                                                    *)
(***************************************************************************)
\* x-coordinates of the curves range over 0..MaxCoord
MaxCoord == 3
\* y-coordinates of the curves are 0 or MaxY
MaxY == 1
\* parameters t are the multiples of 1/TDen from -1/TDen to 1 + 1/TDen
TDen == 2
\* target x values are the multiples of 1/XDen from -1/XDen to MaxCoord + 1/XDen
XDen == 2
\* grid of the f64 square root
SqrtPrec == 512
\* grid of the f32 result of the root solver
NarrowPrec == 64

(***************************************************************************)
(* Floating-point values.                                                  *)
(***************************************************************************)
RECURSIVE GCD(_, _)
GCD(m, n) == IF n = 0 THEN m ELSE GCD(n, m % n)

\* a finite value s * n / d, in lowest terms; n = 0 is the zero of sign s
Fin(s, n, d) ==
    LET g == GCD(n, d)
    IN  [k |-> "fin", s |-> s, n |-> n \div g, d |-> d \div g]

NaN == [k |-> "nan", s |-> 1, n |-> 0, d |-> 1]
Inf(s) == [k |-> "inf", s |-> s, n |-> 0, d |-> 1]

\* the literal i / j (j > 0)
Rat(i, j) == IF i < 0 THEN Fin(-1, -i, j) ELSE Fin(1, i, j)
Lit(i) == Rat(i, 1)

IsNaN(x) == x.k = "nan"
IsFin(x) == x.k = "fin"
IsZero(x) == x.k = "fin" /\ x.n = 0
\* the signed numerator of a finite value
Num(x) == x.s * x.n

FNeg(x) == IF IsNaN(x) THEN x ELSE [x EXCEPT !.s = -x.s]

FAdd(x, y) ==
    IF IsNaN(x) \/ IsNaN(y) THEN NaN
    ELSE IF x.k = "inf" /\ y.k = "inf" THEN (IF x.s = y.s THEN x ELSE NaN)
    ELSE IF x.k = "inf" THEN x
    ELSE IF y.k = "inf" THEN y
    ELSE LET n == Num(x) * y.d + Num(y) * x.d
         IN  IF n = 0
             THEN Fin(IF x.s = -1 /\ y.s = -1 THEN -1 ELSE 1, 0, 1)
             ELSE IF n < 0 THEN Fin(-1, -n, x.d * y.d) ELSE Fin(1, n, x.d * y.d)

FSub(x, y) == FAdd(x, FNeg(y))

FMul(x, y) ==
    IF IsNaN(x) \/ IsNaN(y) THEN NaN
    ELSE IF x.k = "inf" \/ y.k = "inf"
         THEN (IF IsZero(x) \/ IsZero(y) THEN NaN ELSE Inf(x.s * y.s))
    ELSE Fin(x.s * y.s, x.n * y.n, x.d * y.d)

FDiv(x, y) ==
    IF IsNaN(x) \/ IsNaN(y) THEN NaN
    ELSE IF x.k = "inf" THEN (IF y.k = "inf" THEN NaN ELSE Inf(x.s * y.s))
    ELSE IF y.k = "inf" THEN Fin(x.s * y.s, 0, 1)
    ELSE IF IsZero(y) THEN (IF IsZero(x) THEN NaN ELSE Inf(x.s * y.s))
    ELSE Fin(x.s * y.s, x.n * y.d, x.d * y.n)

\* IEEE comparisons: every comparison with NaN is false, -0 = +0
FLt(x, y) ==
    IF IsNaN(x) \/ IsNaN(y) THEN FALSE
    ELSE IF x.k = "inf" THEN x.s = -1 /\ ~(y.k = "inf" /\ y.s = -1)
    ELSE IF y.k = "inf" THEN y.s = 1
    ELSE Num(x) * y.d < Num(y) * x.d

FEq(x, y) ==
    IF IsNaN(x) \/ IsNaN(y) THEN FALSE
    ELSE IF x.k = "inf" \/ y.k = "inf" THEN x.k = y.k /\ x.s = y.s
    ELSE Num(x) * y.d = Num(y) * x.d

FLe(x, y) == FLt(x, y) \/ FEq(x, y)
FGt(x, y) == FLt(y, x)

\* the largest r in lo..hi with r * r <= n
RECURSIVE ISqrt(_, _, _)
ISqrt(n, lo, hi) ==
    IF lo >= hi THEN lo
    ELSE LET mid == (lo + hi + 1) \div 2
         IN  IF mid * mid <= n THEN ISqrt(n, mid, hi) ELSE ISqrt(n, lo, mid - 1)

\* f64::sqrt: NaN for a negative operand, -0 for -0, otherwise the root
\* rounded to the nearest multiple of 1/SqrtPrec
FSqrt(x) ==
    IF IsNaN(x) THEN NaN
    ELSE IF IsZero(x) THEN x
    ELSE IF x.s = -1 THEN NaN
    ELSE IF x.k = "inf" THEN x
    ELSE LET q == (x.n * SqrtPrec * SqrtPrec) \div x.d
             r == ISqrt(q, 0, IF q < 46340 THEN q ELSE 46340)
             up == (2 * r + 1) * (2 * r + 1) * x.d < 4 * x.n * SqrtPrec * SqrtPrec
         IN  Fin(1, IF up THEN r + 1 ELSE r, SqrtPrec)

\* f64::max and f64::min: a NaN operand is ignored
FMax(x, y) == IF IsNaN(x) THEN y ELSE IF IsNaN(y) THEN x
              ELSE IF FLt(x, y) THEN y ELSE x
FMin(x, y) == IF IsNaN(x) THEN y ELSE IF IsNaN(y) THEN x
              ELSE IF FLt(y, x) THEN y ELSE x

\* `as f64` of an f32 is exact
Widen(x) == x

\* `as f32` of an f64: the nearest multiple of 1/NarrowPrec (ties away from 0)
Narrow(x) ==
    IF ~IsFin(x) THEN x
    ELSE Fin(x.s, (2 * x.n * NarrowPrec + x.d) \div (2 * x.d), NarrowPrec)


(***************************************************************************)
(* Points and curves.                                                      *)
(***************************************************************************)
Zero == Lit(0)
One == Lit(1)
Two == Lit(2)
Four == Lit(4)

Point(x, y) == [x |-> x, y |-> y]

\* euclid's Point2D::lerp: one_t = 1 - t; (one_t * a + t * b) per coordinate
LerpF(a, b, t) == FAdd(FMul(FSub(One, t), a), FMul(t, b))
Lerp(p, q, t) == Point(LerpF(p.x, q.x, t), LerpF(p.y, q.y, t))

\* endpoints[1] and endpoints[2] are the source's endpoints[0] and endpoints[1]
Curve_new(endpoint_0, control_point, endpoint_1) ==
    [endpoints |-> <<endpoint_0, endpoint_1>>, control_point |-> control_point]

\* mutant of sample: t is clamped to [0, 1] before the interpolation
sample_Clamped(c, t) ==
    LET p0 == c.endpoints[1]
        p1 == c.control_point
        p2 == c.endpoints[2]
        tc == FMin(FMax(t, Zero), One)
    IN  Lerp(Lerp(p0, p1, tc), Lerp(p1, p2, tc), tc)

sample(c, t) ==
    LET p0 == c.endpoints[1]
        p1 == c.control_point
        p2 == c.endpoints[2]
    IN  Lerp(Lerp(p0, p1, t), Lerp(p1, p2, t), t)

\* mutant of subdivide: the shared point is taken on the chord p0-p2
subdivide_ChordPoint(c, t) ==
    LET p0 == c.endpoints[1]
        p1 == c.control_point
        p2 == c.endpoints[2]
        ap1 == Lerp(p0, p1, t)
        bp1 == Lerp(p1, p2, t)
        ap2bp0 == Lerp(p0, p2, t)
    IN  <<Curve_new(p0, ap1, ap2bp0), Curve_new(ap2bp0, bp1, p2)>>

\* mutant of subdivide: both parts keep the original control point
subdivide_KeepControl(c, t) ==
    LET p0 == c.endpoints[1]
        p1 == c.control_point
        p2 == c.endpoints[2]
        ap1 == Lerp(p0, p1, t)
        bp1 == Lerp(p1, p2, t)
        ap2bp0 == Lerp(ap1, bp1, t)
    IN  <<Curve_new(p0, p1, ap2bp0), Curve_new(ap2bp0, p1, p2)>>

subdivide(c, t) ==
    LET p0 == c.endpoints[1]
        p1 == c.control_point
        p2 == c.endpoints[2]
        ap1 == Lerp(p0, p1, t)
        bp1 == Lerp(p1, p2, t)
        ap2bp0 == Lerp(ap1, bp1, t)
    IN  <<Curve_new(p0, ap1, ap2bp0), Curve_new(ap2bp0, bp1, p2)>>

\* mutant of Clamp01: the upper clamp is missing
Clamp01_LowerOnly(t) == FMax(t, Zero)

\* t.max(0.0).min(1.0)
Clamp01(t) == FMin(FMax(t, Zero), One)

\* the root 2c / (-b - sqrt(b^2 - 4ac)) in f64, before the clamp
solve_t_unclamped(c, x) ==
    LET p0x == Widen(c.endpoints[1].x)
        p1x == Widen(c.control_point.x)
        p2x == Widen(c.endpoints[2].x)
        xw == Widen(x)
        a == FAdd(FSub(p0x, FMul(Two, p1x)), p2x)
        b == FAdd(FMul(FNeg(Two), p0x), FMul(Two, p1x))
        cc == FSub(p0x, xw)
        disc == FSub(FMul(b, b), FMul(FMul(Four, a), cc))
    IN  FDiv(FMul(Two, cc), FSub(FNeg(b), FSqrt(disc)))

solve_t_for_x(c, x) == Narrow(Clamp01(solve_t_unclamped(c, x)))

solve_y_for_x(c, x) == sample(c, solve_t_for_x(c, x)).y

\* mutant of subdivide_at_x: the parts are never swapped
subdivide_at_x_NoSwap(c, x) == subdivide(c, solve_t_for_x(c, x))

subdivide_at_x(c, x) ==
    LET parts == subdivide(c, solve_t_for_x(c, x))
    IN  IF FLe(c.endpoints[1].x, c.endpoints[2].x)
        THEN <<parts[1], parts[2]>>
        ELSE <<parts[2], parts[1]>>

\* f32::approx_epsilon() is f32::EPSILON = 2^-23
EpsilonDenominator == 8388608
approx_epsilon == Rat(1, EpsilonDenominator)

\* Option<f32>: None is << >>, Some(t) is <<t>>
None == << >>
Some(t) == <<t>>

\* mutant of inflection_point_x: the interval is closed and has no epsilon
inflection_point_x_Closed(endpoint_x_0, control_point_x, endpoint_x_1) ==
    LET num == FSub(endpoint_x_0, control_point_x)
        denom == FAdd(FSub(endpoint_x_0, FMul(Two, control_point_x)), endpoint_x_1)
        t == FDiv(num, denom)
    IN  IF FLe(Zero, t) /\ FLe(t, One) THEN <<t>> ELSE << >>

inflection_point_x(endpoint_x_0, control_point_x, endpoint_x_1) ==
    LET num == FSub(endpoint_x_0, control_point_x)
        denom == FAdd(FSub(endpoint_x_0, FMul(Two, control_point_x)), endpoint_x_1)
        t == FDiv(num, denom)
    IN  IF FGt(t, approx_epsilon) /\ FLt(t, FSub(One, approx_epsilon))
        THEN Some(t)
        ELSE None

\* mutant of inflection_points: the y channel is computed from the x-coordinates
inflection_points_XTwice(c) ==
    <<inflection_point_x(c.endpoints[1].x, c.control_point.x, c.endpoints[2].x),
      inflection_point_x(c.endpoints[1].x, c.control_point.x, c.endpoints[2].x)>>

inflection_points(c) ==
    <<inflection_point_x(c.endpoints[1].x, c.control_point.x, c.endpoints[2].x),
      inflection_point_x(c.endpoints[1].y, c.control_point.y, c.endpoints[2].y)>>

(***************************************************************************)
(* The inputs of the model.                                                *)
(***************************************************************************)
Points == {Point(Lit(x), Lit(y)) : x \in 0..MaxCoord, y \in {0, MaxY}}

\* the curves of the spec's two concrete scenarios
ArchCurve == Curve_new(Point(Lit(0), Lit(0)), Point(Lit(5), Lit(10)), Point(Lit(10), Lit(0)))
FlatCurve == Curve_new(Point(Lit(0), Lit(0)), Point(Lit(5), Lit(0)), Point(Lit(10), Lit(0)))

Curves == {Curve_new(p0, p1, p2) : p0 \in Points, p1 \in Points, p2 \in Points}
              \cup {ArchCurve, FlatCurve}

\* parameters inside and outside [0, 1], and the scenarios' parameter 1/2
TParams == {Rat(i, TDen) : i \in (-1)..(TDen + 1)} \cup {Rat(1, 2)}
\* targets inside and outside the x-range of the curves
XTargets == {Rat(i, XDen) : i \in (-1)..(MaxCoord * XDen + 1)}

(***************************************************************************)
(* The state machine: a caller constructs a Curve (Init) and calls one of  *)
(* its operations.  Every operation takes &self and returns new values, so *)
(* no call changes the curve and a second call on it sees the state of the *)
(* first: a behaviour is one construction followed by one call.            *)
(* `op` is the operation called, `arg` its argument, `ret` its result.     *)
(***************************************************************************)
Init ==
    /\ curve \in Curves
    /\ op = "new"
    /\ arg = Zero
    /\ ret = << >>

Sample(t) ==
    /\ op = "new"
    /\ op' = "sample"
    /\ arg' = t
    /\ ret' = sample(curve, t)
    /\ UNCHANGED curve

Subdivide(t) ==
    /\ op = "new"
    /\ op' = "subdivide"
    /\ arg' = t
    /\ ret' = subdivide(curve, t)
    /\ UNCHANGED curve

SubdivideAtX(x) ==
    /\ op = "new"
    /\ op' = "subdivide_at_x"
    /\ arg' = x
    /\ ret' = subdivide_at_x(curve, x)
    /\ UNCHANGED curve

SolveTForX(x) ==
    /\ op = "new"
    /\ op' = "solve_t_for_x"
    /\ arg' = x
    /\ ret' = solve_t_for_x(curve, x)
    /\ UNCHANGED curve

SolveYForX(x) ==
    /\ op = "new"
    /\ op' = "solve_y_for_x"
    /\ arg' = x
    /\ ret' = solve_y_for_x(curve, x)
    /\ UNCHANGED curve

InflectionPoints ==
    /\ op = "new"
    /\ op' = "inflection_points"
    /\ arg' = Zero
    /\ ret' = inflection_points(curve)
    /\ UNCHANGED curve

Next ==
    \/ \E t \in TParams : Sample(t)
    \/ \E t \in TParams : Subdivide(t)
    \/ \E x \in XTargets : SubdivideAtX(x)
    \/ \E x \in XTargets : SolveTForX(x)
    \/ \E x \in XTargets : SolveYForX(x)
    \/ InflectionPoints

Spec == Init /\ [][Next]_vars

TypeOK ==
    /\ curve \in Curves
    /\ op \in {"new", "sample", "subdivide", "subdivide_at_x", "solve_t_for_x",
               "solve_y_for_x", "inflection_points"}

(***************************************************************************)
(* Vocabulary of the properties.                                           *)
(***************************************************************************)
X0 == curve.endpoints[1].x
X1 == curve.control_point.x
X2 == curve.endpoints[2].x
Y0 == curve.endpoints[1].y
Y1 == curve.control_point.y
Y2 == curve.endpoints[2].y

IncreasingX == FLe(X0, X1) /\ FLe(X1, X2)
DecreasingX == FLe(X2, X1) /\ FLe(X1, X0)
MonotonicX == IncreasingX \/ DecreasingX

\* min(x0, x2) <= x <= max(x0, x2), and the strict form
BetweenEnds(x) == (FLe(X0, x) /\ FLe(x, X2)) \/ (FLe(X2, x) /\ FLe(x, X0))
StrictlyBetweenEnds(x) == (FLt(X0, x) /\ FLt(x, X2)) \/ (FLt(X2, x) /\ FLt(x, X0))

PEq(p, q) == FEq(p.x, q.x) /\ FEq(p.y, q.y)
CEq(c, d) == /\ PEq(c.endpoints[1], d.endpoints[1])
             /\ PEq(c.endpoints[2], d.endpoints[2])
             /\ PEq(c.control_point, d.control_point)

FAbs(x) == IF IsNaN(x) THEN x ELSE [x EXCEPT !.s = 1]

\* the tolerance of the root solver's result in x: the curve's x moves by at
\* most 2 * MaxCoord per unit of t, and t is rounded to a grid of 1/NarrowPrec
Tol == Rat(2 * MaxCoord, NarrowPrec)
Near(u, v) == FLe(FAbs(FSub(u, v)), Tol)

\* the three x-coordinates of a curve
XsOf(c) == {c.endpoints[1].x, c.control_point.x, c.endpoints[2].x}

IsPointCurve(c) == PEq(c.endpoints[1], c.control_point) /\ PEq(c.control_point, c.endpoints[2])

(***************************************************************************)
(* C1.  For a curve whose x is monotonic in t (increasing or decreasing,   *)
(* x0 # x2) and a target x between the endpoint x-values, the parameter    *)
(* returned by solve_t_for_x(x) is one at which the curve's x equals x     *)
(* within tolerance: sample(t).x ~ x.                                      *)
(***************************************************************************)
C1_RootSolveCorrect ==
    (op = "solve_t_for_x" /\ MonotonicX /\ ~FEq(X0, X2) /\ BetweenEnds(arg))
        => Near(sample(curve, ret).x, arg)

(***************************************************************************)
(* C2.  solve_t_for_x returns a finite t with 0 <= t <= 1 for every curve  *)
(* and every target x: x outside the x-range, a = 0, a zero denominator    *)
(* and a negative discriminant included.                                   *)
(***************************************************************************)
C2_RootSolveClamped ==
    op = "solve_t_for_x" => (IsFin(ret) /\ FLe(Zero, ret) /\ FLe(ret, One))

\* the solver was called where the unclamped root is infinite or undefined
C2_Witness ==
    op = "solve_t_for_x" /\ ~IsFin(solve_t_unclamped(curve, arg))

(***************************************************************************)
(* C3.  For a curve whose x is monotonic in t and every target x,          *)
(* subdivide_at_x(x) returns (left, right) with every x-coordinate of left *)
(* (endpoints and control point) <= every x-coordinate of right, in both   *)
(* stored orders of the endpoints.                                         *)
(***************************************************************************)
C3_SubdivideAtXOrdered ==
    (op = "subdivide_at_x" /\ MonotonicX)
        => \A l \in XsOf(ret[1]) : \A r \in XsOf(ret[2]) : FLe(l, r)

\* a curve stored in decreasing-x order was subdivided at an x inside its range
C3_Witness ==
    op = "subdivide_at_x" /\ DecreasingX /\ FLt(X2, X0) /\ StrictlyBetweenEnds(arg)

(***************************************************************************)
(* C4.  For every curve C and parameter t, (A, B) = C.subdivide(t) has     *)
(* A.endpoints[0] = C.endpoints[0], B.endpoints[1] = C.endpoints[1] and    *)
(* A.endpoints[1] = B.endpoints[0] = C.sample(t), so A.sample(1) =         *)
(* B.sample(0).                                                            *)
(***************************************************************************)
C4_SubdivideEndpoints ==
    op = "subdivide" =>
        /\ PEq(ret[1].endpoints[1], curve.endpoints[1])
        /\ PEq(ret[2].endpoints[2], curve.endpoints[2])
        /\ PEq(ret[1].endpoints[2], ret[2].endpoints[1])
        /\ PEq(ret[1].endpoints[2], sample(curve, arg))
        /\ PEq(sample(ret[1], One), sample(ret[2], Zero))

\* a curve that is not a single point was subdivided at a t outside [0, 1]
C4_Witness ==
    op = "subdivide" /\ FGt(arg, One) /\ ~IsPointCurve(curve)

(***************************************************************************)
(* C5.  Subdivision reproduces the curve: with (A, B) = C.subdivide(t),    *)
(* A.sample(s) = C.sample(t*s) and B.sample(s) = C.sample(t + (1-t)*s) for *)
(* every s; and for endpoints (0,0),(10,0) with control (5,10),            *)
(* subdivide(0.5) has the shared midpoint (5,5) and the control points     *)
(* (2.5,5) and (7.5,5).                                                    *)
(***************************************************************************)
C5_SubdivideShape ==
    op = "subdivide" =>
        /\ \A s \in TParams :
              /\ PEq(sample(ret[1], s), sample(curve, FMul(arg, s)))
              /\ PEq(sample(ret[2], s),
                     sample(curve, FAdd(arg, FMul(FSub(One, arg), s))))
        /\ (curve = ArchCurve /\ FEq(arg, Rat(1, 2))) =>
              /\ PEq(ret[1].endpoints[2], Point(Lit(5), Lit(5)))
              /\ PEq(ret[2].endpoints[1], Point(Lit(5), Lit(5)))
              /\ PEq(ret[1].control_point, Point(Rat(5, 2), Lit(5)))
              /\ PEq(ret[2].control_point, Point(Rat(15, 2), Lit(5)))

\* the scenario's curve was bisected
C5_Witness ==
    op = "subdivide" /\ curve = ArchCurve /\ FEq(arg, Rat(1, 2))

(***************************************************************************)
(* C6.  sample(t) is the quadratic Bezier value                            *)
(* (1-t)^2*P0 + 2t(1-t)*P1 + t^2*P2 for every t, with no clamping of t;    *)
(* sample(0) = endpoints[0] and sample(1) = endpoints[1]; and the          *)
(* scenario's curve has sample(0.5) = (5,5).                               *)
(***************************************************************************)
Bernstein(c0, c1, c2, t) ==
    LET u == FSub(One, t)
    IN  FAdd(FAdd(FMul(FMul(u, u), c0), FMul(FMul(FMul(Two, t), u), c1)),
             FMul(FMul(t, t), c2))

C6_SampleIsBezier ==
    op = "sample" =>
        /\ FEq(ret.x, Bernstein(X0, X1, X2, arg))
        /\ FEq(ret.y, Bernstein(Y0, Y1, Y2, arg))
        /\ (FEq(arg, Zero) => PEq(ret, curve.endpoints[1]))
        /\ (FEq(arg, One) => PEq(ret, curve.endpoints[2]))
        /\ ((curve = ArchCurve /\ FEq(arg, Rat(1, 2))) => PEq(ret, Point(Lit(5), Lit(5))))

\* a curve was sampled beyond t = 1 and the point lies past its end in x
C6_Witness ==
    op = "sample" /\ FGt(arg, One) /\ FLt(X0, X1) /\ FLt(X1, X2) /\ FGt(ret.x, X2)

(***************************************************************************)
(* C7.  A channel whose control coordinate lies between (inclusive) its    *)
(* two endpoint coordinates has no inflection: inflection_points() reports *)
(* None for it; endpoints (0,0),(10,0) with control (5,0) give             *)
(* (None, None).                                                           *)
(***************************************************************************)
BetweenIncl(c0, c1, c2) == (FLe(c0, c1) /\ FLe(c1, c2)) \/ (FLe(c2, c1) /\ FLe(c1, c0))

C7_MonotonicChannelNoInflection ==
    op = "inflection_points" =>
        /\ (BetweenIncl(X0, X1, X2) => ret[1] = None)
        /\ (BetweenIncl(Y0, Y1, Y2) => ret[2] = None)
        /\ (curve = FlatCurve => ret = <<None, None>>)

\* a curve with a strictly monotonic, unevenly spaced x channel was queried
C7_Witness ==
    op = "inflection_points" /\ FLt(X2, X1) /\ FLt(X1, X0)
        /\ ~FEq(FSub(X0, X1), FSub(X1, X2))

(***************************************************************************)
(* C8.  For a curve whose x is monotonic in t (either stored direction)    *)
(* and a target x strictly between the endpoint x-values, the curves       *)
(* returned by subdivide_at_x(x) meet at a point whose x equals x within   *)
(* tolerance, and neither of them is the whole input curve or a single     *)
(* point.                                                                  *)
(***************************************************************************)
C8_SubdivideAtXSplitsAtX ==
    (op = "subdivide_at_x" /\ MonotonicX /\ StrictlyBetweenEnds(arg)) =>
        /\ \/ PEq(ret[1].endpoints[2], ret[2].endpoints[1])
           \/ PEq(ret[1].endpoints[1], ret[2].endpoints[2])
        /\ \E j \in {ret[1].endpoints[1], ret[1].endpoints[2]} : Near(j.x, arg)
        /\ \E j \in {ret[2].endpoints[1], ret[2].endpoints[2]} : Near(j.x, arg)
        /\ \A i \in {1, 2} : ~CEq(ret[i], curve) /\ ~IsPointCurve(ret[i])

(***************************************************************************)
(* C9.  Each channel of inflection_points() depends on that channel's      *)
(* three coordinates only: it is Some(t) exactly when                      *)
(* t = (c0 - c1) / (c0 - 2*c1 + c2) has eps < t < 1 - eps, and None        *)
(* otherwise (a zero denominator included); a returned t has 0 < t < 1 and *)
(* is a zero of the channel's derivative (1-t)(c1 - c0) + t(c2 - c1).      *)
(***************************************************************************)
\* the coordinates of the model's curves are integers
IntOf(x) == Num(x)

\* eps < n/d < 1 - eps for integers n and d # 0, with eps = 1/EpsilonDenominator
RatioInsideEps(n, d) ==
    LET sn == IF d < 0 THEN -n ELSE n
        sd == IF d < 0 THEN -d ELSE d
    IN  /\ sn * EpsilonDenominator > sd
        /\ sn * EpsilonDenominator < sd * (EpsilonDenominator - 1)

ChannelInflection(r, c0, c1, c2) ==
    LET n == IntOf(c0) - IntOf(c1)
        d == IntOf(c0) - 2 * IntOf(c1) + IntOf(c2)
    IN  IF d # 0 /\ RatioInsideEps(n, d)
        THEN /\ Len(r) = 1
             /\ FEq(r[1], IF d < 0 THEN Rat(-n, -d) ELSE Rat(n, d))
             /\ FLt(Zero, r[1]) /\ FLt(r[1], One)
             /\ FEq(FAdd(FMul(FSub(One, r[1]), FSub(c1, c0)),
                         FMul(r[1], FSub(c2, c1))), Zero)
        ELSE r = None

C9_InflectionPerChannel ==
    op = "inflection_points" =>
        /\ ChannelInflection(ret[1], X0, X1, X2)
        /\ ChannelInflection(ret[2], Y0, Y1, Y2)

\* the x channel has an inflection and the y channel has none
C9_Witness ==
    op = "inflection_points" /\ Len(ret[1]) = 1 /\ ret[2] = None
        /\ ~(FEq(X0, Y0) /\ FEq(X1, Y1) /\ FEq(X2, Y2))

(***************************************************************************)
(* C10.  For a curve whose x is monotonic in t with                        *)
(* endpoints[0].x # endpoints[1].x (increasing or decreasing),             *)
(* solve_t_for_x(endpoints[0].x) = 0 and solve_t_for_x(endpoints[1].x) = 1.*)
(***************************************************************************)
C10_RootSolveAtEndpoints ==
    (op = "solve_t_for_x" /\ MonotonicX /\ ~FEq(X0, X2)) =>
        /\ (FEq(arg, X0) => FEq(ret, Zero))
        /\ (FEq(arg, X2) => FEq(ret, One))

=============================================================================
